---- MODULE Spec2Model ----
(***************************************************************************)
(* A model of blacklist_parser.py: main() opens the report sink, fetches   *)
(* the CSV blacklist, and parse_blacklist() splits it into header, data    *)
(* rows and trailer, groups the rows by category and writes the report.    *)
(* Text is modelled as TLA+ strings, character by character: find,         *)
(* slicing, splitlines, strip, re.match, strptime/strftime and csv.reader  *)
(* are computed as the Python library computes them.                       *)
(***************************************************************************)
EXTENDS Integers, Sequences, FiniteSets, TLC

(***************************************************************************)
(* Python str primitives                                                   *)
(***************************************************************************)
\* s[i-1] in Python: the i-th character (1-based) as a one-character string
Ch(s, i) == SubSeq(s, i, i)

\* a slice bound as Python normalises it: negative counts from the end, clamped
SliceBound(s, k) ==
    IF k < 0 THEN (IF Len(s) + k < 0 THEN 0 ELSE Len(s) + k)
    ELSE (IF k > Len(s) THEN Len(s) ELSE k)

\* s[lo:hi]
Slice(s, lo, hi) ==
    IF SliceBound(s, lo) >= SliceBound(s, hi) THEN ""
    ELSE SubSeq(s, SliceBound(s, lo) + 1, SliceBound(s, hi))

\* s[lo:]
SliceFrom(s, lo) == Slice(s, lo, Len(s))

\* the 0-based offsets at which sub occurs in s
Occurrences(s, sub) ==
    {i \in 0..(Len(s) - Len(sub)) : SubSeq(s, i + 1, i + Len(sub)) = sub}

\* s.find(sub): 0-based index of the first occurrence, -1 when there is none
Find(s, sub) ==
    LET hits == Occurrences(s, sub)
    IN  IF hits = {} THEN -1 ELSE CHOOSE i \in hits : \A j \in hits : i <= j

\* the positions (1-based) of the line breaks of s
Breaks(s) == {i \in 1..Len(s) : Ch(s, i) = "\n"}

\* the k-th smallest element of a set of integers
Kth(S, k) == CHOOSE x \in S : Cardinality({y \in S : y <= x}) = k

\* s.splitlines(): line breaks removed, no empty last line after a final break
SplitLines(s) ==
    LET bs == Breaks(s)
        n == Cardinality(bs)
        last == IF n = 0 THEN 0 ELSE Kth(bs, n)
        start(k) == IF k = 1 THEN 1 ELSE Kth(bs, k - 1) + 1
        stop(k) == IF k <= n THEN Kth(bs, k) - 1 ELSE Len(s)
    IN  [k \in 1..(IF last < Len(s) THEN n + 1 ELSE n) |->
            IF start(k) > stop(k) THEN "" ELSE SubSeq(s, start(k), stop(k))]

\* the end of the run of characters c at the start of s, and the start of the
\* run at its end
LeadRun(s, c) ==
    LET other == {i \in 1..Len(s) : Ch(s, i) # c}
    IN  IF other = {} THEN Len(s) ELSE (CHOOSE i \in other : \A j \in other : i <= j) - 1

TrailRun(s, c) ==
    LET other == {i \in 1..Len(s) : Ch(s, i) # c}
    IN  IF other = {} THEN 1 ELSE (CHOOSE i \in other : \A j \in other : i >= j) + 1

\* s.lstrip(c), s.rstrip(c)
LStrip(s, c) == IF LeadRun(s, c) >= Len(s) THEN "" ELSE SubSeq(s, LeadRun(s, c) + 1, Len(s))

RStrip(s, c) == IF TrailRun(s, c) <= 1 THEN "" ELSE SubSeq(s, 1, TrailRun(s, c) - 1)

\* s.strip(c) for a one-character c
Strip(s, c) == RStrip(LStrip(s, c), c)

StartsWith(s, p) == Len(s) >= Len(p) /\ SubSeq(s, 1, Len(p)) = p

Digits == "0123456789"
Lowers == "abcdefghijklmnopqrstuvwxyz"
Uppers == "ABCDEFGHIJKLMNOPQRSTUVWXYZ"
\* the printable ASCII characters 32..95 and 97..126, in code-point order
PrintableLow == " !\"#$%&'()*+,-./0123456789:;<=>?@ABCDEFGHIJKLMNOPQRSTUVWXYZ[\\]^_"
PrintableHigh == "abcdefghijklmnopqrstuvwxyz{|}~"

\* 1-based position of the one-character string c in s, 0 when absent
IndexIn(s, c) ==
    IF \E i \in 1..Len(s) : Ch(s, i) = c
    THEN CHOOSE i \in 1..Len(s) : Ch(s, i) = c
    ELSE 0

IsDigit(c) == IndexIn(Digits, c) > 0
DigitVal(c) == IndexIn(Digits, c) - 1

\* ord(c) for the characters of the model's alphabet
Ord(c) ==
    IF c = "\n" THEN 10
    ELSE IF IndexIn(PrintableLow, c) > 0 THEN 31 + IndexIn(PrintableLow, c)
    ELSE 96 + IndexIn(PrintableHigh, c)

\* c.lower()
LowerCh(c) == IF IndexIn(Uppers, c) > 0 THEN Ch(Lowers, IndexIn(Uppers, c)) ELSE c

RECURSIVE Lower(_)
Lower(s) == IF Len(s) = 0 THEN "" ELSE LowerCh(Ch(s, 1)) \o Lower(SubSeq(s, 2, Len(s)))

\* a < b for Python str: lexicographic by code point
RECURSIVE StrLess(_, _)
StrLess(a, b) ==
    IF Len(a) = 0 THEN Len(b) > 0
    ELSE IF Len(b) = 0 THEN FALSE
    ELSE IF Ch(a, 1) = Ch(b, 1)
         THEN StrLess(SubSeq(a, 2, Len(a)), SubSeq(b, 2, Len(b)))
         ELSE Ord(Ch(a, 1)) < Ord(Ch(b, 1))

RECURSIVE NatToDec(_)
NatToDec(n) ==
    IF n < 10 THEN Ch(Digits, n + 1)
    ELSE NatToDec(n \div 10) \o Ch(Digits, (n % 10) + 1)

\* "%d" % n
IntToDec(n) == IF n < 0 THEN "-" \o NatToDec(-n) ELSE NatToDec(n)

\* "%02d" % n, as strftime prints %d %H %M %S
Pad2(n) == IF n < 10 THEN "0" \o NatToDec(n) ELSE NatToDec(n)

RECURSIVE DecToNatAcc(_, _)
DecToNatAcc(s, acc) ==
    IF Len(s) = 0 THEN acc
    ELSE DecToNatAcc(SubSeq(s, 2, Len(s)), acc * 10 + DigitVal(Ch(s, 1)))

\* int(s) for a string of decimal digits
DecToNat(s) == DecToNatAcc(s, 0)

RECURSIVE DigitRunEnd(_, _)
\* the position after the longest run of digits of s that starts at i
DigitRunEnd(s, i) ==
    IF i <= Len(s) /\ IsDigit(Ch(s, i)) THEN DigitRunEnd(s, i + 1) ELSE i

RECURSIVE SpaceRunEnd(_, _)
SpaceRunEnd(s, i) ==
    IF i <= Len(s) /\ Ch(s, i) = " " THEN SpaceRunEnd(s, i + 1) ELSE i

\* Python's None and a present value
None == [none |-> TRUE, v |-> ""]
Some(x) == [none |-> FALSE, v |-> x]

(***************************************************************************)
(* datetime.strptime(s, "Last updated: %Y-%m-%d %H:%M:%S (%Z)") and        *)
(* strftime("%b %d %H:%M:%S %Y").  _strptime turns the format into a       *)
(* regular expression matched case-insensitively against the whole string: *)
(* a blank of the format is \s+, %Y is four digits, the other numeric      *)
(* directives are one or two digits within their range, %Z is a zone name. *)
(* A position of 0 stands for "no match".                                  *)
(***************************************************************************)
\* zone names %Z accepts (lower case): utc, gmt and time.tzname of a UTC host
TzNames == {"utc", "gmt"}

MonthAbbr == <<"Jan", "Feb", "Mar", "Apr", "May", "Jun",
               "Jul", "Aug", "Sep", "Oct", "Nov", "Dec">>

IsLeap(y) == (y % 4 = 0 /\ y % 100 # 0) \/ y % 400 = 0

DaysInMonth(y, m) ==
    IF m = 2 THEN (IF IsLeap(y) THEN 29 ELSE 28)
    ELSE IF m \in {4, 6, 9, 11} THEN 30 ELSE 31

\* a literal of the format at position i of s: the position after it, or 0
MatchLit(s, i, lit) ==
    IF i > 0 /\ i + Len(lit) - 1 <= Len(s)
             /\ Lower(SubSeq(s, i, i + Len(lit) - 1)) = Lower(lit)
    THEN i + Len(lit) ELSE 0

\* \s+ at position i
MatchWs(s, i) ==
    IF i > 0 /\ i <= Len(s) /\ Ch(s, i) = " " THEN SpaceRunEnd(s, i) ELSE 0

\* a numeric directive at position i, of minD..maxD digits and value lo..hi,
\* followed by a non-digit: [pos |-> position after it or 0, val |-> value]
MatchNum(s, i, minD, maxD, lo, hi) ==
    IF i = 0 THEN [pos |-> 0, val |-> 0]
    ELSE LET e == DigitRunEnd(s, i)
             n == IF e > i /\ e - i <= maxD THEN DecToNat(SubSeq(s, i, e - 1)) ELSE 0
         IN  IF e - i >= minD /\ e - i <= maxD /\ n >= lo /\ n <= hi
             THEN [pos |-> e, val |-> n]
             ELSE [pos |-> 0, val |-> 0]

\* %d also accepts a blank followed by one digit 1..9
MatchDay(s, i) ==
    IF i > 0 /\ i <= Len(s) /\ Ch(s, i) = " "
    THEN MatchNum(s, i + 1, 1, 1, 1, 9)
    ELSE MatchNum(s, i, 1, 2, 1, 31)

\* the zone name and the closing parenthesis, up to the end of the string
MatchZone(s, i) ==
    IF i > 0 /\ i <= Len(s) /\ Ch(s, Len(s)) = ")"
             /\ Lower(SubSeq(s, i, Len(s) - 1)) \in TzNames
    THEN Len(s) + 1 ELSE 0

NoDatetime == [none |-> TRUE, Y |-> 0, m |-> 0, d |-> 0, H |-> 0, M |-> 0, S |-> 0]

\* the datetime strptime returns, or NoDatetime where it raises ValueError
StrpTime(s) ==
    LET p1 == MatchWs(s, MatchLit(s, 1, "Last"))
        p2 == MatchWs(s, MatchLit(s, p1, "updated:"))
        fY == MatchNum(s, p2, 4, 4, 0, 9999)
        fm == MatchNum(s, MatchLit(s, fY.pos, "-"), 1, 2, 1, 12)
        fd == MatchDay(s, MatchLit(s, fm.pos, "-"))
        fH == MatchNum(s, MatchWs(s, fd.pos), 1, 2, 0, 23)
        fM == MatchNum(s, MatchLit(s, fH.pos, ":"), 1, 2, 0, 59)
        fS == MatchNum(s, MatchLit(s, fM.pos, ":"), 1, 2, 0, 61)
        pZ == MatchZone(s, MatchLit(s, MatchWs(s, fS.pos), "("))
    IN  IF pZ = 0 THEN NoDatetime
        ELSE IF fY.val < 1 \/ fd.val > DaysInMonth(fY.val, fm.val) \/ fS.val > 59
        THEN NoDatetime
        ELSE [none |-> FALSE, Y |-> fY.val, m |-> fm.val, d |-> fd.val,
              H |-> fH.val, M |-> fM.val, S |-> fS.val]

\* dt.strftime("%b %d %H:%M:%S %Y")
StrfTime(dt) ==
    MonthAbbr[dt.m] \o " " \o Pad2(dt.d) \o " " \o Pad2(dt.H) \o ":"
        \o Pad2(dt.M) \o ":" \o Pad2(dt.S) \o " " \o NatToDec(dt.Y)

(***************************************************************************)
(* parse_header and parse_trailer                                          *)
(***************************************************************************)
\* parse_header reading the name and the timestamp one line too early
parse_header_FirstLines(header) ==
    IF Len(header) < 3
    THEN [name |-> None, datetime |-> NoDatetime, log |-> <<"header too short">>]
    ELSE LET report_datetime == StrpTime(Strip(Strip(header[2], "#"), " "))
         IN  [name |-> Some(Strip(Strip(header[1], "#"), " ")),
              datetime |-> report_datetime,
              log |-> IF report_datetime.none THEN <<"bad timestamp">> ELSE <<>>]

\* parse_header(header): the report name and datetime of a list of header
\* lines, (None, None) when there are fewer than 3 lines
parse_header(header) ==
    IF Len(header) < 3
    THEN [name |-> None, datetime |-> NoDatetime, log |-> <<"header too short">>]
    ELSE LET report_name == Strip(Strip(header[2], "#"), " ")
             report_timestamp == Strip(Strip(header[3], "#"), " ")
             report_datetime == StrpTime(report_timestamp)
         IN  [name |-> Some(report_name), datetime |-> report_datetime,
              log |-> IF report_datetime.none THEN <<"bad timestamp">> ELSE <<>>]

TrailerPrefix == "# Number of entries: "

\* re.match(r"# Number of entries: ([0-9]+)", trailer) succeeds
TrailerMatches(trailer) ==
    /\ StartsWith(trailer, TrailerPrefix)
    /\ DigitRunEnd(trailer, Len(TrailerPrefix) + 1) > Len(TrailerPrefix) + 1

\* parse_trailer(trailer): the declared count, -1 when the line does not match
parse_trailer(trailer) ==
    IF TrailerMatches(trailer)
    THEN DecToNat(SubSeq(trailer, Len(TrailerPrefix) + 1,
                         DigitRunEnd(trailer, Len(TrailerPrefix) + 1) - 1))
    ELSE -1

(***************************************************************************)
(* csv.reader over a list of lines, excel dialect: delimiter ',',          *)
(* quotechar '"', doublequote, not strict.  The parser is the state        *)
(* machine of _csv.c; EOL is the end-of-line it is fed after each line.    *)
(* The lines come from splitlines and hold no line break; over printable   *)
(* text the reader raises no csv.Error.                                    *)
(***************************************************************************)
EOL == "EOL"

ParseReset == [state |-> "START_RECORD", fields |-> <<>>, field |-> ""]

parse_save_field(p) == [p EXCEPT !.fields = Append(@, p.field), !.field = ""]

parse_add_char(p, c) == [p EXCEPT !.field = @ \o c]

\* parse_process_char(self, c)
parse_process_char(p, c) ==
    CASE p.state = "START_RECORD" /\ c = EOL -> p
      [] p.state = "START_FIELD" \/ (p.state = "START_RECORD" /\ c # EOL) ->
            IF c = EOL THEN [parse_save_field(p) EXCEPT !.state = "START_RECORD"]
            ELSE IF c = "\"" THEN [p EXCEPT !.state = "IN_QUOTED_FIELD"]
            ELSE IF c = "," THEN [parse_save_field(p) EXCEPT !.state = "START_FIELD"]
            ELSE [parse_add_char(p, c) EXCEPT !.state = "IN_FIELD"]
      [] p.state = "IN_FIELD" ->
            IF c = EOL THEN [parse_save_field(p) EXCEPT !.state = "START_RECORD"]
            ELSE IF c = "," THEN [parse_save_field(p) EXCEPT !.state = "START_FIELD"]
            ELSE parse_add_char(p, c)
      [] p.state = "IN_QUOTED_FIELD" ->
            IF c = EOL THEN p
            ELSE IF c = "\"" THEN [p EXCEPT !.state = "QUOTE_IN_QUOTED_FIELD"]
            ELSE parse_add_char(p, c)
      [] p.state = "QUOTE_IN_QUOTED_FIELD" ->
            IF c = "\"" THEN [parse_add_char(p, c) EXCEPT !.state = "IN_QUOTED_FIELD"]
            ELSE IF c = "," THEN [parse_save_field(p) EXCEPT !.state = "START_FIELD"]
            ELSE IF c = EOL THEN [parse_save_field(p) EXCEPT !.state = "START_RECORD"]
            ELSE [parse_add_char(p, c) EXCEPT !.state = "IN_FIELD"]

RECURSIVE ParseLineFrom(_, _, _)
\* the characters of one line from position i on, then EOL
ParseLineFrom(p, line, i) ==
    IF i > Len(line) THEN parse_process_char(p, EOL)
    ELSE ParseLineFrom(parse_process_char(p, Ch(line, i)), line, i + 1)

RECURSIVE ReadRecord(_, _, _)
\* Reader_iternext: lines are consumed from index i until a record is complete.
\* [stop |-> the reader is exhausted, row |-> the record, next |-> the index
\* of the first line not consumed]
ReadRecord(lines, i, p) ==
    IF i > Len(lines)
    THEN IF p.field # "" \/ p.state = "IN_QUOTED_FIELD"
         THEN [stop |-> FALSE, row |-> parse_save_field(p).fields, next |-> i]
         ELSE [stop |-> TRUE, row |-> <<>>, next |-> i]
    ELSE LET q == ParseLineFrom(p, lines[i], 1)
         IN  IF q.state = "START_RECORD"
             THEN [stop |-> FALSE, row |-> q.fields, next |-> i + 1]
             ELSE ReadRecord(lines, i + 1, q)

\* next(reader) with the reader positioned before line i
ReaderNext(lines, i) == ReadRecord(lines, i, ParseReset)

RECURSIVE ReadAll(_, _)
\* list(csv.reader(lines)) from line i on
ReadAll(lines, i) ==
    LET r == ReaderNext(lines, i)
    IN  IF r.stop THEN <<>> ELSE <<r.row>> \o ReadAll(lines, r.next)

(***************************************************************************)
(* The documents a run may fetch.  A document is a header block, the       *)
(* marker line, data rows and a trailer line; the families below vary each *)
(* region.                                                                 *)
(***************************************************************************)
\* the most data rows of a document of the family with a well-formed header
MaxRows == 3

field_list == "# DstIP,DstPort\n"

\* three-field rows of two categories, a 2-field row, a 4-field row, and a
\* row with a quoted field and a quote that is never closed
RowChoices ==
    {"1.2,44,F", "5.6,80,B", "1.3,44,F", "9,9", "7,7,X,Y", "\"3,3\",3,\"U"}

HdrGood == "#\n# N\n# Last updated: 2016-01-01 12:00:00 (UTC)\n"
HdrShort == "# N\n# Last updated: 2016-01-01 12:00:00 (UTC)\n"
HdrBadTime == "#\n# N\n# Last updated: 2016-02-30 12:00:00 (UTC)\n"

TrailerGood == "# Number of entries: 2\n"
TrailerBad == "# entries: 2\n"
TrailerChoices == {TrailerGood, TrailerBad, ""}

RECURSIVE JoinLines(_)
\* the lines of a sequence, each followed by a line break
JoinLines(ls) == IF ls = <<>> THEN "" ELSE Head(ls) \o "\n" \o JoinLines(Tail(ls))

RowSeqs(n) == UNION {[1..k -> RowChoices] : k \in 0..n}

\* well-formed header and marker, any rows, any trailer
FullDocs ==
    {HdrGood \o field_list \o JoinLines(rs) \o t : rs \in RowSeqs(MaxRows), t \in TrailerChoices}

DegradedRows == {<<>>, <<"1.2,44,F">>, <<"5.6,80,B", "1.2,44,F">>}

\* short, unparsable or absent header, marker present or absent
DegradedDocs ==
    {h \o m \o JoinLines(rs) \o t :
        h \in {HdrGood, HdrShort, HdrBadTime, ""}, m \in {field_list, ""},
        rs \in DegradedRows, t \in TrailerChoices}

ExampleDoc ==
    "# Example Blacklist\n# Last updated: 2016-01-01 12:00:00 (UTC)\n# DstIP,DstPort\n"
    \o "1.2.3.4,443,Foo C&C\n5.6.7.8,8080,Bar C&C\n1.2.3.5,443,Foo C&C\n"
    \o "# Number of entries: 3\n"

\* the example behind one more leading header line, as the feed has it
ExampleDocBanner == "####\n" \o ExampleDoc

ExampleReport ==
    "Example Blacklist Blacklist Report\n(3 IP's found at Jan 01 12:00:00 2016):\n"
    \o "\n=== Bar C&C ===\n5.6.7.8:8080\n"
    \o "\n=== Foo C&C ===\n1.2.3.4:443\n1.2.3.5:443\n"

Documents == FullDocs \cup DegradedDocs \cup {ExampleDoc, ExampleDocBanner}

\* what requests.get does: raises RequestException or returns a response
\* with a body that may be empty
Responses ==
    {[exc |-> TRUE, text |-> ""]} \cup {[exc |-> FALSE, text |-> d] : d \in Documents \cup {""}}

(***************************************************************************)
(* The state of a run of main()                                            *)
(***************************************************************************)
VARIABLES
    pc,              \* the position of main / parse_blacklist / generate_report
    report,          \* main's local `report`: "unbound" or "stream"
    sinkState,       \* the output stream: "unopened", "open", "closed"
    closeCount,      \* number of report.close() calls that closed the stream
    sink,            \* the strings written to the stream, one per write call
    response,        \* what requests.get produced
    data,            \* main's local `data`: None or the blacklist text
    raised,          \* the exception raised inside main's try block, or "none"
    stages,          \* the parsing stages of parse_blacklist that have run
    header_end,
    report_name,
    report_datetime,
    rows,            \* the data lines handed to csv.reader
    num_entries,
    readPos,         \* the index of the next line csv.reader consumes
    blacklist_dict,  \* category -> sequence of <<dest_IP, dest_port>>
    catIdx,          \* generate_report: the position in sorted(keys)
    entIdx,          \* generate_report: the position in the category's entries
    log              \* the logger.error messages, in order

vars == <<pc, report, sinkState, closeCount, sink, response, data, raised, stages,
          header_end, report_name, report_datetime, rows, num_entries, readPos,
          blacklist_dict, catIdx, entIdx, log>>

mainVars == <<report, sinkState, closeCount, response, data>>
parseVars == <<header_end, report_name, report_datetime, rows, num_entries, readPos,
               blacklist_dict>>
genVars == <<catIdx, entIdx>>

Init ==
    /\ pc = "open"
    /\ report = "unbound"
    /\ sinkState = "unopened"
    /\ closeCount = 0
    /\ sink = <<>>
    /\ response = [exc |-> FALSE, text |-> ""]
    /\ data = None
    /\ raised = "none"
    /\ stages = {}
    /\ header_end = 0
    /\ report_name = None
    /\ report_datetime = NoDatetime
    /\ rows = <<>>
    /\ num_entries = 0
    /\ readPos = 1
    /\ blacklist_dict = [c \in {} |-> <<>>]
    /\ catIdx = 1
    /\ entIdx = 1
    /\ log = <<>>

(***************************************************************************)
(* main(): the output sink and the fetch                                   *)
(***************************************************************************)
\* an exception raised inside main's try block reaches its except clause
Raise(e) == raised' = e /\ pc' = "except"

\* main, the if/else on args.stdout: report is sys.stdout or the opened file;
\* when open() raises IOError the error is logged and report stays unbound
OpenSink ==
    /\ pc = "open"
    /\ \E stdout \in BOOLEAN, openOk \in BOOLEAN :
          IF stdout \/ openOk
          THEN /\ report' = "stream"
               /\ sinkState' = "open"
               /\ log' = log
          ELSE /\ report' = "unbound"
               /\ sinkState' = "unopened"
               /\ log' = Append(log, "Failed to open report output file")
    /\ pc' = "fetch"
    /\ UNCHANGED <<closeCount, sink, response, data, raised, stages>>
    /\ UNCHANGED <<parseVars, genVars>>

\* get_blacklist without the test for an empty body
get_blacklist_NoEmptyCheck(resp) ==
    IF resp.exc THEN [data |-> None, log |-> <<"Blacklist retrieval failed">>]
    ELSE [data |-> Some(resp.text), log |-> <<>>]

\* get_blacklist(source) on what requests.get produced: the text, or None
\* after an exception or for an empty body
get_blacklist(resp) ==
    IF resp.exc THEN [data |-> None, log |-> <<"Blacklist retrieval failed">>]
    ELSE IF Len(resp.text) > 0 THEN [data |-> Some(resp.text), log |-> <<>>]
    ELSE [data |-> None, log |-> <<"Retrieved empty blacklist file">>]

\* main: data = get_blacklist(args.source)
GetBlacklist ==
    /\ pc = "fetch"
    /\ \E resp \in Responses :
          /\ response' = resp
          /\ data' = get_blacklist(resp).data
          /\ log' = log \o get_blacklist(resp).log
    /\ pc' = "call"
    /\ UNCHANGED <<report, sinkState, closeCount, sink, raised, stages>>
    /\ UNCHANGED <<parseVars, genVars>>

\* main: parse_blacklist(data, report); reading the unbound local `report`
\* raises UnboundLocalError before the call
CallParseBlacklist ==
    /\ pc = "call"
    /\ IF report = "unbound"
       THEN Raise("UnboundLocalError")
       ELSE pc' = "find" /\ raised' = raised
    /\ UNCHANGED <<mainVars, sink, stages, log>>
    /\ UNCHANGED <<parseVars, genVars>>

(***************************************************************************)
(* parse_blacklist(data, report)                                           *)
(***************************************************************************)
\* the test `not header_end` on the result of data.find(field_list)
MarkerMissing(idx) == idx = 0

\* header_end = data.find(field_list); return when `not header_end`.
\* None has no find: AttributeError
FindMarker ==
    /\ pc = "find"
    /\ IF data.none
       THEN /\ Raise("AttributeError")
            /\ UNCHANGED <<header_end, stages, log>>
       ELSE /\ header_end' = Find(data.v, field_list)
            /\ stages' = stages \cup {"marker"}
            /\ raised' = raised
            /\ IF MarkerMissing(header_end')
               THEN /\ log' = Append(log, "CSV File Header does not conform to expected formatting")
                    /\ pc' = "finally"
               ELSE /\ log' = log
                    /\ pc' = "header"
    /\ UNCHANGED <<mainVars, sink>>
    /\ UNCHANGED <<report_name, report_datetime, rows, num_entries, readPos, blacklist_dict>>
    /\ UNCHANGED genVars

\* report_name, report_datetime = parse_header(data[:header_end].splitlines())
ParseHeader ==
    /\ pc = "header"
    /\ LET h == parse_header(SplitLines(Slice(data.v, 0, header_end)))
       IN  /\ report_name' = h.name
           /\ report_datetime' = h.datetime
           /\ log' = log \o h.log
    /\ stages' = stages \cup {"header"}
    /\ pc' = "trailer"
    /\ UNCHANGED <<mainVars, sink, raised>>
    /\ UNCHANGED <<header_end, rows, num_entries, readPos, blacklist_dict>>
    /\ UNCHANGED genVars

\* the lines after the marker: data[header_end+len(field_list):].splitlines()
DataLines(d, idx) == SplitLines(SliceFrom(d, idx + Len(field_list)))

\* rows = ...splitlines(); num_entries = parse_trailer(rows.pop()).
\* pop from an empty list raises IndexError
PopTrailer ==
    /\ pc = "trailer"
    /\ LET all == DataLines(data.v, header_end)
       IN  IF all = <<>>
           THEN /\ Raise("IndexError")
                /\ UNCHANGED <<rows, num_entries, stages, log>>
           ELSE /\ rows' = SubSeq(all, 1, Len(all) - 1)
                /\ num_entries' = parse_trailer(all[Len(all)])
                /\ log' = IF TrailerMatches(all[Len(all)]) THEN log
                          ELSE Append(log, "Trailer in blacklist not formatted as expected")
                /\ stages' = stages \cup {"trailer"}
                /\ raised' = raised
                /\ pc' = "rows"
    /\ UNCHANGED <<mainVars, sink>>
    /\ UNCHANGED <<header_end, report_name, report_datetime, readPos, blacklist_dict>>
    /\ UNCHANGED genVars

\* the row test accepting rows of more than three fields
RowIsValid_AtLeastThree(row) == Len(row) >= 3

\* the test of a row: len(row) != 3 skips it
RowIsValid(row) == Len(row) = 3

\* the entry put at the front of its bucket instead of the back
AddEntry_Prepend(dict, row) ==
    [c \in DOMAIN dict \cup {row[3]} |->
        IF c \in DOMAIN dict
        THEN (IF c = row[3] THEN <<<<row[1], row[2]>>>> \o dict[c] ELSE dict[c])
        ELSE <<<<row[1], row[2]>>>>]

\* blacklist_dict[description].append((dest_IP, dest_port)) on a defaultdict(list)
AddEntry(dict, row) ==
    [c \in DOMAIN dict \cup {row[3]} |->
        IF c \in DOMAIN dict
        THEN (IF c = row[3] THEN Append(dict[c], <<row[1], row[2]>>) ELSE dict[c])
        ELSE <<<<row[1], row[2]>>>>]

\* the keys in descending order
RECURSIVE SortedKeys_Descending(_)
SortedKeys_Descending(S) ==
    IF S = {} THEN <<>>
    ELSE LET m == CHOOSE x \in S : \A y \in S \ {x} : StrLess(y, x)
         IN  <<m>> \o SortedKeys_Descending(S \ {m})

\* sorted(blacklist_dict.keys())
RECURSIVE SortedKeys(_)
SortedKeys(S) ==
    IF S = {} THEN <<>>
    ELSE LET m == CHOOSE x \in S : \A y \in S \ {x} : StrLess(x, y)
         IN  <<m>> \o SortedKeys(S \ {m})

\* where generate_report goes once it stands before category i
GenPc(dict, i) == IF i > Cardinality(DOMAIN dict) THEN "finally" ELSE "section"

\* one iteration of `for row in reader`: the row is skipped or appended; when
\* the reader is exhausted generate_report is called
ReadRow ==
    /\ pc = "rows"
    /\ LET r == ReaderNext(rows, readPos)
       IN  IF r.stop
           THEN /\ pc' = "title"
                /\ UNCHANGED <<readPos, blacklist_dict, log>>
           ELSE /\ readPos' = r.next
                /\ pc' = "rows"
                /\ IF RowIsValid(r.row)
                   THEN /\ blacklist_dict' = AddEntry(blacklist_dict, r.row)
                        /\ log' = log
                   ELSE /\ blacklist_dict' = blacklist_dict
                        /\ log' = Append(log, "Skipping invalid data row")
    /\ stages' = stages \cup {"rows"}
    /\ UNCHANGED <<mainVars, sink, raised>>
    /\ UNCHANGED <<header_end, report_name, report_datetime, rows, num_entries>>
    /\ UNCHANGED genVars

(***************************************************************************)
(* generate_report(report, report_name, num_entries, report_datetime,      *)
(* blacklist_dict): one action per report.write; a write may raise IOError *)
(***************************************************************************)
\* "%s" % x
FormatS(x) == IF x.none THEN "None" ELSE x.v

TitleLine(name) == FormatS(name) \o " Blacklist Report\n"

CountLine(n, dt) == "(" \o IntToDec(n) \o " IP's found at " \o StrfTime(dt) \o "):\n"

SectionLine(description) == "\n=== " \o description \o " ===\n"

\* ':'.join(entry) + "\n"
EntryLine(entry) == entry[1] \o ":" \o entry[2] \o "\n"

WriteTitle ==
    /\ pc = "title"
    /\ \E ok \in BOOLEAN :
          IF ok
          THEN /\ sink' = Append(sink, TitleLine(report_name))
               /\ pc' = "count"
               /\ raised' = raised
          ELSE /\ Raise("IOError")
               /\ sink' = sink
    /\ UNCHANGED <<mainVars, stages, log>>
    /\ UNCHANGED <<parseVars, genVars>>

\* report_datetime.strftime on None raises AttributeError before the write
WriteCount ==
    /\ pc = "count"
    /\ IF report_datetime.none
       THEN /\ Raise("AttributeError")
            /\ sink' = sink
       ELSE \E ok \in BOOLEAN :
               IF ok
               THEN /\ sink' = Append(sink, CountLine(num_entries, report_datetime))
                    /\ pc' = GenPc(blacklist_dict, 1)
                    /\ raised' = raised
               ELSE /\ Raise("IOError")
                    /\ sink' = sink
    /\ UNCHANGED <<mainVars, stages, log>>
    /\ UNCHANGED <<parseVars, genVars>>

WriteSection ==
    /\ pc = "section"
    /\ \E ok \in BOOLEAN :
          IF ok
          THEN /\ sink' = Append(sink, SectionLine(SortedKeys(DOMAIN blacklist_dict)[catIdx]))
               /\ pc' = "entry"
               /\ raised' = raised
          ELSE /\ Raise("IOError")
               /\ sink' = sink
    /\ UNCHANGED <<mainVars, stages, log>>
    /\ UNCHANGED <<parseVars, genVars>>

WriteEntry ==
    /\ pc = "entry"
    /\ LET entries == blacklist_dict[SortedKeys(DOMAIN blacklist_dict)[catIdx]]
       IN  \E ok \in BOOLEAN :
              IF ok
              THEN /\ sink' = Append(sink, EntryLine(entries[entIdx]))
                   /\ raised' = raised
                   /\ IF entIdx < Len(entries)
                      THEN /\ entIdx' = entIdx + 1
                           /\ catIdx' = catIdx
                           /\ pc' = "entry"
                      ELSE /\ entIdx' = 1
                           /\ catIdx' = catIdx + 1
                           /\ pc' = GenPc(blacklist_dict, catIdx + 1)
              ELSE /\ Raise("IOError")
                   /\ sink' = sink
                   /\ UNCHANGED genVars
    /\ UNCHANGED <<mainVars, stages, log>>
    /\ UNCHANGED parseVars

(***************************************************************************)
(* main(): except, finally and the last line                               *)
(***************************************************************************)
\* except Exception: logger.error(traceback.format_exc())
HandleException ==
    /\ pc = "except"
    /\ log' = Append(log, "Traceback: " \o raised)
    /\ pc' = "finally"
    /\ UNCHANGED <<mainVars, sink, raised, stages>>
    /\ UNCHANGED <<parseVars, genVars>>

\* report.close() as the last statement of the try block instead of a finally
\* clause: an exception skips it
CloseSink_OnlyOnSuccess ==
    /\ pc = "finally"
    /\ IF report = "unbound"
       THEN /\ pc' = "unhandled"
            /\ UNCHANGED <<sinkState, closeCount>>
       ELSE IF raised # "none"
       THEN /\ pc' = "finish"
            /\ UNCHANGED <<sinkState, closeCount>>
       ELSE /\ sinkState' = "closed"
            /\ closeCount' = IF sinkState = "open" THEN closeCount + 1 ELSE closeCount
            /\ pc' = "finish"
    /\ UNCHANGED <<report, response, data, sink, raised, stages, log>>
    /\ UNCHANGED <<parseVars, genVars>>

\* finally: report.close(); with `report` unbound the UnboundLocalError it
\* raises leaves main
CloseSink ==
    /\ pc = "finally"
    /\ IF report = "unbound"
       THEN /\ pc' = "unhandled"
            /\ UNCHANGED <<sinkState, closeCount>>
       ELSE /\ sinkState' = "closed"
            /\ closeCount' = IF sinkState = "open" THEN closeCount + 1 ELSE closeCount
            /\ pc' = "finish"
    /\ UNCHANGED <<report, response, data, sink, raised, stages, log>>
    /\ UNCHANGED <<parseVars, genVars>>

\* logger.info('Finished blacklist parser'); main returns
Finish ==
    /\ pc = "finish"
    /\ pc' = "done"
    /\ UNCHANGED <<mainVars, sink, raised, stages, log>>
    /\ UNCHANGED <<parseVars, genVars>>

Next ==
    \/ OpenSink
    \/ GetBlacklist
    \/ CallParseBlacklist
    \/ FindMarker
    \/ ParseHeader
    \/ PopTrailer
    \/ ReadRow
    \/ WriteTitle
    \/ WriteCount
    \/ WriteSection
    \/ WriteEntry
    \/ HandleException
    \/ CloseSink
    \/ Finish

Spec == Init /\ [][Next]_vars

(***************************************************************************)
(* What the properties speak of: the document fetched, its regions as the  *)
(* format defines them, and the report read back from the sink.            *)
(***************************************************************************)
Doc == response.text

Fetched == pc \notin {"open", "fetch"}

\* main has returned or an exception has left it
Returned == pc \in {"done", "unhandled"}

\* parse_blacklist has stopped: it returned or raised
ParseStopped == pc \in {"except", "finally", "finish", "done", "unhandled"}

\* logger.error was called with the message m
Logged(m) == \E i \in 1..Len(log) : log[i] = m

\* the stream was opened and no write to it failed
SinkWorks == report = "stream" /\ raised # "IOError"

HasThreeFields(r) == Len(r) = 3

\* the header block has a name line and a timestamp line that parses
GoodHeader(d) ==
    /\ Find(d, field_list) > 0
    /\ LET h == SplitLines(Slice(d, 0, Find(d, field_list)))
       IN  Len(h) >= 3 /\ ~StrpTime(Strip(Strip(h[3], "#"), " ")).none

\* the lines between the marker line and the last line of the document
DataBlock(d) ==
    LET ls == SplitLines(SliceFrom(d, Find(d, field_list) + Len(field_list)))
    IN  IF ls = <<>> THEN <<>> ELSE SubSeq(ls, 1, Len(ls) - 1)

LastLine(d) ==
    LET ls == SplitLines(d) IN IF ls = <<>> THEN "" ELSE ls[Len(ls)]

\* header, marker, at least the trailer line after it, and the trailer matches
WellFormed(d) ==
    /\ GoodHeader(d)
    /\ Len(SliceFrom(d, Find(d, field_list) + Len(field_list))) > 0
    /\ TrailerMatches(LastLine(d))

\* the CSV records of the data block, and those of exactly three fields
Records(d) == ReadAll(DataBlock(d), 1)
ValidRecords(d) == SelectSeq(Records(d), HasThreeFields)

RECURSIVE EntryLinesOf(_, _)
\* the "<ip>:<port>" lines of the records of category c, in record order
EntryLinesOf(recs, c) ==
    IF recs = <<>> THEN <<>>
    ELSE (IF HasThreeFields(Head(recs)) /\ Head(recs)[3] = c
          THEN <<Head(recs)[1] \o ":" \o Head(recs)[2] \o "\n">> ELSE <<>>)
         \o EntryLinesOf(Tail(recs), c)

RECURSIVE PairsOf(_, _)
\* the (ip, port) pairs of the three-field records of category c, in order
PairsOf(recs, c) ==
    IF recs = <<>> THEN <<>>
    ELSE (IF HasThreeFields(Head(recs)) /\ Head(recs)[3] = c
          THEN <<<<Head(recs)[1], Head(recs)[2]>>>> ELSE <<>>)
         \o PairsOf(Tail(recs), c)

Categories(recs) == {recs[i][3] : i \in {j \in 1..Len(recs) : HasThreeFields(recs[j])}}

RECURSIVE Concat(_)
Concat(ws) == IF ws = <<>> THEN "" ELSE Head(ws) \o Concat(Tail(ws))

\* the text in the sink
SinkText == Concat(sink)

IsSection(w) == StartsWith(w, "\n=== ")
SectionName(w) == SubSeq(w, 6, Len(w) - 5)

RECURSIVE BlocksAcc(_, _)
\* the writes after the count line cut into blocks: a section line and the
\* lines up to the next section line
BlocksAcc(ws, acc) ==
    IF ws = <<>> THEN acc
    ELSE IF IsSection(Head(ws))
         THEN BlocksAcc(Tail(ws), Append(acc, [name |-> SectionName(Head(ws)), lines |-> <<>>]))
         ELSE IF acc = <<>>
              THEN BlocksAcc(Tail(ws), <<[name |-> "(no section)", lines |-> <<Head(ws)>>]>>)
              ELSE BlocksAcc(Tail(ws),
                             [acc EXCEPT ![Len(acc)].lines = Append(@, Head(ws))])

Blocks == BlocksAcc(SubSeq(sink, 3, Len(sink)), <<>>)

SectionNames ==
    LET ss == SelectSeq(sink, IsSection) IN [k \in 1..Len(ss) |-> SectionName(ss[k])]

StrictlyIncreasing(names) ==
    \A i \in 1..(Len(names) - 1) : StrLess(names[i], names[i + 1])

\* the report of the records recs is in the sink, block by block
BlocksRender(recs) ==
    LET bs == Blocks
        cats == Categories(recs)
    IN  /\ Len(sink) >= 2
        /\ {bs[k].name : k \in 1..Len(bs)} = cats
        /\ Cardinality(cats) = Len(bs)
        /\ \A k \in 1..Len(bs) : bs[k].lines = EntryLinesOf(recs, bs[k].name)

(***************************************************************************)
(* Properties                                                              *)
(***************************************************************************)

\* C1: for a fetched document that does not contain the marker line
\* '# DstIP,DstPort', nothing is ever written to the sink, no header, trailer
\* or row stage runs, and the error is logged once parse_blacklist has stopped.
C1_NoMarkerNoOutput ==
    (Fetched /\ ~response.exc /\ Len(Doc) > 0 /\ Find(Doc, "# DstIP,DstPort") = -1)
    => /\ sink = <<>>
       /\ stages \cap {"header", "trailer", "rows"} = {}
       /\ (ParseStopped /\ report = "stream"
              => Logged("CSV File Header does not conform to expected formatting"))

\* C2 (as stated): for the example document of two header lines, the marker,
\* three rows and the trailer, the text written is exactly the example report.
C2_ExampleReport ==
    (pc = "done" /\ SinkWorks /\ ~response.exc /\ Doc = ExampleDoc)
    => SinkText = ExampleReport

\* C2 (amended): for the example document preceded by one more header line, so
\* that the name is the second and the timestamp the third line of the header,
\* parse_blacklist raises nothing and the text written is exactly the example
\* report.
C2_ExampleReportWithBanner ==
    (pc = "done" /\ SinkWorks /\ ~response.exc /\ Doc = ExampleDocBanner)
    => raised = "none" /\ SinkText = ExampleReport

C2_Witness ==
    pc = "done" /\ ~response.exc /\ Doc = ExampleDocBanner /\ SinkText = ExampleReport

\* C3: the section lines written so far are always in strictly increasing
\* code-point order of category name (so no category twice), and for a
\* well-formed document, whatever the order of its rows, the finished report
\* has a section for exactly the categories of its three-field records.
C3_SectionsSorted ==
    /\ StrictlyIncreasing(SectionNames)
    /\ (pc = "done" /\ SinkWorks /\ ~response.exc /\ WellFormed(Doc))
       => LET cats == Categories(Records(Doc))
          IN  /\ raised = "none"
              /\ {SectionNames[k] : k \in 1..Len(SectionNames)} = cats
              /\ Len(SectionNames) = Cardinality(cats)

\* a finished report of two sections whose first section is not the category
\* of the first valid row: the rows arrived out of order
C3_Witness ==
    /\ pc = "done" /\ ~response.exc /\ WellFormed(Doc) /\ raised = "none"
    /\ Len(SectionNames) >= 2
    /\ ValidRecords(Doc)[1][3] # SectionNames[1]

\* C4: for a document with a good header, the marker and at least one line
\* after it, the finished report has one block per category of the data
\* block's three-field records, and the lines of a block are exactly the
\* '<ip>:<port>' lines of the records of that category, in input order: every
\* valid row once, under its own category and no other.
C4_EntriesInOrder ==
    (pc = "done" /\ SinkWorks /\ ~response.exc /\ Len(Doc) > 0 /\ GoodHeader(Doc)
        /\ Len(SliceFrom(Doc, Find(Doc, field_list) + Len(field_list))) > 0)
    => raised = "none" /\ BlocksRender(Records(Doc))

\* a finished report with a block of two entries and another block
C4_Witness ==
    /\ pc = "done" /\ ~response.exc /\ Len(Doc) > 0 /\ GoodHeader(Doc) /\ raised = "none"
    /\ Len(Blocks) >= 2
    /\ \E k \in 1..Len(Blocks) :
          /\ Len(Blocks[k].lines) = 2
          /\ Blocks[k].lines[1] # Blocks[k].lines[2]

\* C5: the buckets hold exactly the three-field records among the records read
\* so far, in order (a record of another field count is in no bucket); after
\* the loop every line has been consumed; and for a well-formed document none
\* of whose records has three fields the report is the title line and the
\* count line and nothing else.
C5_OnlyThreeFieldRows ==
    /\ pc \in {"rows", "title", "count", "section", "entry"}
       => LET seen == ReadAll(SubSeq(rows, 1, readPos - 1), 1)
          IN  /\ DOMAIN blacklist_dict = Categories(seen)
              /\ \A c \in DOMAIN blacklist_dict : blacklist_dict[c] = PairsOf(seen, c)
              /\ (pc # "rows" => readPos > Len(rows))
    /\ (pc = "done" /\ SinkWorks /\ ~response.exc /\ WellFormed(Doc)
           /\ ValidRecords(Doc) = <<>>)
       => /\ raised = "none"
          /\ sink = <<TitleLine(report_name), CountLine(num_entries, report_datetime)>>
          /\ ~report_name.none

\* a finished report for a well-formed document whose records are a 2-field
\* and a 4-field row
C5_Witness ==
    /\ pc = "done" /\ ~response.exc /\ WellFormed(Doc) /\ raised = "none"
    /\ \E i, j \in 1..Len(Records(Doc)) : Len(Records(Doc)[i]) = 2 /\ Len(Records(Doc)[j]) = 4
    /\ ValidRecords(Doc) = <<>>
    /\ Len(sink) = 2

\* the lines after the marker that are data rows, not comment lines
DataRowsOf(d) ==
    LET ls == SplitLines(SliceFrom(d, Find(d, field_list) + Len(field_list)))
        IsRow(l) == ~StartsWith(l, "#")
    IN  SelectSeq(ls, IsRow)

\* C6: for a document with a good header, the marker and data rows whose last
\* line does not match '# Number of entries: <digits>' (a bad trailer, or
\* none), the run raises nothing, the count line shows -1, and every
\* three-field data row of the document is in the report under its category.
C6_BadTrailerKeepsRows ==
    (pc = "done" /\ SinkWorks /\ ~response.exc /\ Len(Doc) > 0 /\ GoodHeader(Doc)
        /\ DataRowsOf(Doc) # <<>> /\ ~TrailerMatches(LastLine(Doc)))
    => /\ raised = "none"
       /\ Len(sink) >= 2
       /\ sink[2] = CountLine(-1, report_datetime)
       /\ BlocksRender(ReadAll(DataRowsOf(Doc), 1))

\* C7: the stream is closed at most once, only by main's finally clause, and
\* when main is left (by return or by an exception) a stream that was opened
\* has been closed exactly once.
C7_ClosedExactlyOnce ==
    /\ closeCount <= 1
    /\ (sinkState = "closed" => closeCount = 1 /\ pc \in {"finish", "done"})
    /\ (Returned /\ report = "stream" => closeCount = 1 /\ sinkState = "closed")

\* main has returned after an exception in the try block, the stream closed
C7_Witness ==
    pc = "done" /\ raised # "none" /\ report = "stream" /\ closeCount = 1

\* C8: no exception leaves main.
C8_NothingEscapes == pc # "unhandled"

\* C9: when the fetch yields no data (an exception or an empty body), no
\* parsing stage runs, nothing is written, parse_blacklist is left by the
\* exception its first statement raises, and the failure is logged.
C9_NoDataNoParsing ==
    (Fetched /\ (response.exc \/ Len(response.text) = 0))
    => /\ data.none
       /\ sink = <<>>
       /\ stages = {}
       /\ pc \in {"call", "find", "except", "finally", "finish", "done", "unhandled"}
       /\ (Logged("Blacklist retrieval failed") \/ Logged("Retrieved empty blacklist file"))

\* main has returned after a fetch that raised, the stream having been opened
C9_Witness ==
    pc = "done" /\ response.exc /\ report = "stream" /\ raised = "AttributeError"

RECURSIVE EntryCount(_, _)
\* the number of entries of the categories cs of a dict
EntryCount(dict, cs) ==
    IF cs = {} THEN 0
    ELSE LET c == CHOOSE x \in cs : TRUE
         IN  Len(dict[c]) + EntryCount(dict, cs \ {c})

\* C10: when parse_blacklist has stopped on a document that holds the marker
\* line after a header of any length, and no write failed, the sink holds
\* nothing or a complete report: the title line, the count line and, for each
\* category, its section line and its entries.
C10_NothingOrComplete ==
    (ParseStopped /\ raised # "IOError" /\ ~response.exc /\ Find(Doc, field_list) > 0)
    => \/ sink = <<>>
       \/ /\ Len(sink) = 2 + Cardinality(DOMAIN blacklist_dict)
                           + EntryCount(blacklist_dict, DOMAIN blacklist_dict)
          /\ Len(SectionNames) = Cardinality(DOMAIN blacklist_dict)

====
